---- MODULE Spec2Model ----
(***************************************************************************)
(* Model of src/rules/remove.rs: the removal rule of the renamer.          *)
(*                                                                         *)
(* A string is a sequence of one-character strings.  Offsets are 1-based   *)
(* (Rust offset + 1); the characters used are ASCII, so a character is a   *)
(* byte.  A name is a single file-name component (no path separator): the  *)
(* rule is applied to the names of files.                                  *)
(***************************************************************************)
EXTENDS Integers, Sequences, FiniteSets, TLC

VARIABLES old_text, rules, regex_built, current_text, pc

vars == <<old_text, rules, regex_built, current_text, pc>>

----------------------------------------------------------------------------
(* Bounds and input sets                                                   *)

MaxNameLen == 4
MaxTextLen == 2
MaxFoldNameLen == 3
MaxRules == 2

Alphabet == {"a", "A", "."}
FoldAlphabet == {"a", "."}

SeqsUpTo(S, n) == UNION {[1..k -> S] : k \in 0..n}

ExampleNames ==
    { <<".", "b", "a", "s", "h", "r", "c">>,
      <<"a", "r", "c", "h", "i", "v", "e", ".", "t", "a", "r", ".", "g", "z">>,
      <<"a", "b", "c", ".">>,
      <<"a", ".", "a", ".", "a">>,
      <<"a", "b", "c", "_", "1", "2", "3", "_", "a", "b", "c", ".", "t", "x", "t">> }

ExampleTexts ==
    { <<"b", "a", "s", "h">>, <<"a", ".", "a">>, <<"a", "b", "c">> }

Names == SeqsUpTo(Alphabet, MaxNameLen) \cup ExampleNames
Texts == SeqsUpTo(Alphabet, MaxTextLen) \cup ExampleTexts

FoldNames == SeqsUpTo(FoldAlphabet, MaxFoldNameLen)
FoldTexts == {<<"a">>, <<".">>, <<".", "a">>}

RemovePosition == {"All", "First", "Last"}

RemoveRule(T) ==
    [text : T, remove_position : RemovePosition,
     case_sensitive : BOOLEAN, ignore_extension : BOOLEAN]

----------------------------------------------------------------------------
(* Option values                                                           *)

None == [is_some |-> FALSE, value |-> <<>>]
Some(v) == [is_some |-> TRUE, value |-> v]

----------------------------------------------------------------------------
(* std::path::Path on a single name component                              *)

\* Path::file_name: the last component when it is a normal one; "", "." and
\* ".." have none.
file_name(path) ==
    IF path = <<>> \/ path = <<".">> \/ path = <<".", ".">>
    THEN None
    ELSE Some(path)

RECURSIVE rposition(_, _, _)
\* offset of the last c in s[1..i], 0 when there is none
rposition(s, c, i) ==
    IF i = 0 THEN 0
    ELSE IF s[i] = c THEN i
    ELSE rposition(s, c, i - 1)

\* fault variant: the leading-dot case is not recognised
rsplit_file_at_dot_no_dotfile(file) ==
    IF file = <<".", ".">> THEN <<Some(file), None>>
    ELSE LET i == rposition(file, ".", Len(file))
         IN IF i = 0 THEN <<None, Some(file)>>
            ELSE <<Some(SubSeq(file, 1, i - 1)),
                   Some(SubSeq(file, i + 1, Len(file)))>>

\* std's rsplit_file_at_dot: <<before, after>> around the last dot
rsplit_file_at_dot(file) ==
    IF file = <<".", ".">> THEN <<Some(file), None>>
    ELSE LET i == rposition(file, ".", Len(file))
             after == IF i = 0 THEN Some(file)
                      ELSE Some(SubSeq(file, i + 1, Len(file)))
             before == IF i = 0 THEN None
                       ELSE Some(SubSeq(file, 1, i - 1))
         IN IF before = Some(<<>>) THEN <<Some(file), None>>
            ELSE <<before, after>>

\* Path::file_stem: before.or(after)
file_stem(path) ==
    LET f == file_name(path)
    IN IF ~f.is_some THEN None
       ELSE LET p == rsplit_file_at_dot(f.value)
            IN IF p[1].is_some THEN p[1] ELSE p[2]

\* fault variant: an empty extension counts as no extension
extension_nonempty(path) ==
    LET f == file_name(path)
    IN IF ~f.is_some THEN None
       ELSE LET p == rsplit_file_at_dot(f.value)
            IN IF p[1].is_some /\ p[2].value # <<>> THEN p[2] ELSE None

\* Path::extension: before.and(after)
extension(path) ==
    LET f == file_name(path)
    IN IF ~f.is_some THEN None
       ELSE LET p == rsplit_file_at_dot(f.value)
            IN IF p[1].is_some THEN p[2] ELSE None

----------------------------------------------------------------------------
(* Matching                                                                *)

LowerOf == [c \in {"A", "B", "C", "T", "X"} |->
              CASE c = "A" -> "a" [] c = "B" -> "b" [] c = "C" -> "c"
                [] c = "T" -> "t" [] c = "X" -> "x"]

\* the case folding of RegexBuilder::case_insensitive(true)
simple_fold(c) == IF c \in DOMAIN LowerOf THEN LowerOf[c] ELSE c

\* pat matches s at offset i: literally, or ignoring case for the regex built
\* from regex::escape(pat)
is_match_at(s, i, pat, ignore_case) ==
    /\ i >= 1
    /\ i + Len(pat) - 1 <= Len(s)
    /\ \A k \in 1..Len(pat) :
          IF ignore_case
          THEN simple_fold(s[i + k - 1]) = simple_fold(pat[k])
          ELSE s[i + k - 1] = pat[k]

RECURSIVE match_indices(_, _, _, _)
\* start offsets of the non-overlapping matches of a non-empty pat in s, found
\* left to right from offset `from` (str::match_indices, Regex::find_iter)
match_indices(s, pat, from, ignore_case) ==
    IF from + Len(pat) - 1 > Len(s) THEN <<>>
    ELSE IF is_match_at(s, from, pat, ignore_case)
         THEN <<from>> \o match_indices(s, pat, from + Len(pat), ignore_case)
         ELSE match_indices(s, pat, from + 1, ignore_case)

RECURSIVE delete_spans(_, _, _, _)
\* s[i..] without the spans of length n that start at the offsets in starts
delete_spans(s, starts, n, i) ==
    IF i > Len(s) THEN <<>>
    ELSE LET covered == \E j \in 1..Len(starts) :
                            starts[j] <= i /\ i < starts[j] + n
         IN (IF covered THEN <<>> ELSE <<s[i]>>)
            \o delete_spans(s, starts, n, i + 1)

Take(q, n) == SubSeq(q, 1, IF n < Len(q) THEN n ELSE Len(q))

\* str::replacen(pat, "", count)
str_replacen(s, pat, count) ==
    delete_spans(s, Take(match_indices(s, pat, 1, FALSE), count), Len(pat), 1)

\* fault variant: only the first match is replaced
str_replace_first_only(s, pat) ==
    delete_spans(s, Take(match_indices(s, pat, 1, FALSE), 1), Len(pat), 1)

\* str::replace(pat, "")
str_replace(s, pat) ==
    delete_spans(s, match_indices(s, pat, 1, FALSE), Len(pat), 1)

RECURSIVE rfind_from(_, _, _)
rfind_from(s, pat, i) ==
    IF i < 1 THEN None
    ELSE IF is_match_at(s, i, pat, FALSE) THEN Some(i)
    ELSE rfind_from(s, pat, i - 1)

\* fault variant: the left-most match is found
str_rfind_leftmost(s, pat) ==
    LET m == match_indices(s, pat, 1, FALSE)
    IN IF m = <<>> THEN None ELSE Some(m[1])

\* str::rfind(pat): the start of the right-most match
str_rfind(s, pat) == rfind_from(s, pat, Len(s) - Len(pat) + 1)

\* Regex::find_iter(...).collect()
re_find_iter(s, pat) == match_indices(s, pat, 1, TRUE)

\* fault variant: every match is replaced
re_replace_every(s, pat) ==
    delete_spans(s, re_find_iter(s, pat), Len(pat), 1)

\* Regex::replace(s, ""): the first match only
re_replace(s, pat) ==
    delete_spans(s, Take(re_find_iter(s, pat), 1), Len(pat), 1)

\* Regex::replace_all(s, "")
re_replace_all(s, pat) ==
    delete_spans(s, re_find_iter(s, pat), Len(pat), 1)

----------------------------------------------------------------------------
(* remove                                                                  *)

\* fault variant: ignore_extension is not honoured
split_name_unprotected(text, ignore_extension) == <<text, <<>>>>

\* fault variant: the extension is appended without its dot
split_name_nodot(text, ignore_extension) ==
    IF ignore_extension
    THEN LET stem == file_stem(text)
             ext == extension(text)
         IN <<IF stem.is_some THEN stem.value ELSE text,
              IF stem.is_some /\ ext.is_some THEN ext.value ELSE <<>>>>
    ELSE <<text, <<>>>>

\* <<name_to_process, extension_to_append>>
split_name(text, ignore_extension) ==
    IF ignore_extension
    THEN LET stem == file_stem(text)
             ext == extension(text)
             base_name == IF stem.is_some THEN stem.value ELSE text
             ext_suffix == IF stem.is_some /\ ext.is_some
                           THEN <<".">> \o ext.value
                           ELSE <<>>
         IN <<base_name, ext_suffix>>
    ELSE <<text, <<>>>>

\* RemovePosition::First
remove_first(name_to_process, rule, built) ==
    IF rule.case_sensitive
    THEN str_replacen(name_to_process, rule.text, 1)
    ELSE IF built THEN re_replace(name_to_process, rule.text)
         ELSE name_to_process

\* fault variant: a failed regex build falls back to the literal search
remove_last_fallback(name_to_process, rule, built) ==
    LET index == IF rule.case_sensitive \/ ~built
                 THEN str_rfind(name_to_process, rule.text)
                 ELSE LET m == re_find_iter(name_to_process, rule.text)
                      IN IF m = <<>> THEN None ELSE Some(m[Len(m)])
    IN IF index.is_some
       THEN SubSeq(name_to_process, 1, index.value - 1)
            \o SubSeq(name_to_process, index.value + Len(rule.text),
                      Len(name_to_process))
       ELSE name_to_process

\* RemovePosition::Last
remove_last(name_to_process, rule, built) ==
    IF rule.case_sensitive
    THEN LET index == str_rfind(name_to_process, rule.text)
         IN IF index.is_some
            THEN SubSeq(name_to_process, 1, index.value - 1)
                 \o SubSeq(name_to_process, index.value + Len(rule.text),
                           Len(name_to_process))
            ELSE name_to_process
    ELSE IF built
         THEN LET matches == re_find_iter(name_to_process, rule.text)
              IN IF matches # <<>>
                 THEN LET start == matches[Len(matches)]
                      IN SubSeq(name_to_process, 1, start - 1)
                         \o SubSeq(name_to_process, start + Len(rule.text),
                                   Len(name_to_process))
                 ELSE name_to_process
         ELSE name_to_process

\* RemovePosition::All
remove_all(name_to_process, rule, built) ==
    IF rule.case_sensitive
    THEN str_replace(name_to_process, rule.text)
    ELSE IF built THEN re_replace_all(name_to_process, rule.text)
         ELSE name_to_process

\* remove(old_text, rule); built is the outcome of RegexBuilder::build (Ok or
\* Err) for the rule's text, read only on the case-insensitive paths
remove(text, rule, built) ==
    IF rule.text = <<>> THEN text
    ELSE LET parts == split_name(text, rule.ignore_extension)
             name_to_process == parts[1]
             extension_to_append == parts[2]
         IN IF name_to_process = <<>> THEN extension_to_append
            ELSE LET final_processed_name_part ==
                        CASE rule.remove_position = "First" ->
                                 remove_first(name_to_process, rule, built)
                          [] rule.remove_position = "Last" ->
                                 remove_last(name_to_process, rule, built)
                          [] rule.remove_position = "All" ->
                                 remove_all(name_to_process, rule, built)
                 IN final_processed_name_part \o extension_to_append

RECURSIVE removes_reversed(_, _, _)
\* fault variant: the rules are applied back to front
removes_reversed(text, rs, builts) ==
    IF rs = <<>> THEN text
    ELSE remove(removes_reversed(text, Tail(rs), Tail(builts)),
                Head(rs), Head(builts))

RECURSIVE removes(_, _, _)
\* removes(old_text, rules): the fold takes the rules front to back, the
\* accumulator being the text produced so far
removes(text, rs, builts) ==
    IF rs = <<>> THEN text
    ELSE removes(remove(text, Head(rs), Head(builts)), Tail(rs), Tail(builts))

----------------------------------------------------------------------------
(* The two public operations                                               *)

\* RegexBuilder::build is reached only by a case-insensitive rule with a text
Builds(rule) ==
    IF rule.case_sensitive \/ rule.text = <<>> THEN {TRUE} ELSE BOOLEAN

Init ==
    /\ old_text \in Names
    /\ rules = <<>>
    /\ regex_built = <<>>
    /\ current_text = old_text
    /\ pc = "call"

\* a call of remove(old_text, rule)
Remove ==
    /\ pc = "call"
    /\ \E rule \in RemoveRule(Texts) : \E built \in Builds(rule) :
          /\ rules' = <<rule>>
          /\ regex_built' = <<built>>
          /\ current_text' = remove(old_text, rule, built)
    /\ pc' = "done"
    /\ UNCHANGED old_text

Next == Remove

Spec == Init /\ [][Next]_vars

\* the fold is exercised with case-sensitive rules: no regex is built
FoldRules == {r \in RemoveRule(FoldTexts) : r.case_sensitive}
FoldRuleLists == UNION {[1..n -> FoldRules] : n \in 0..MaxRules}

InitRemoves ==
    /\ old_text \in FoldNames
    /\ rules = <<>>
    /\ regex_built = <<>>
    /\ current_text = old_text
    /\ pc = "call"

\* a call of removes(old_text, rules)
Removes ==
    /\ pc = "call"
    /\ \E rs \in FoldRuleLists :
          /\ rules' = rs
          /\ regex_built' = [i \in 1..Len(rs) |-> TRUE]
          /\ current_text' = removes(old_text, rs, [i \in 1..Len(rs) |-> TRUE])
    /\ pc' = "done"
    /\ UNCHANGED old_text

NextRemoves == Removes

SpecRemoves == InitRemoves /\ [][NextRemoves]_vars

----------------------------------------------------------------------------
(* Vocabulary of the properties                                            *)

Done == pc = "done"

\* the rule of a remove call and the outcome of its regex build
TheRule == rules[1]
TheBuilt == regex_built[1]

EndsWith(s, suffix) ==
    /\ Len(suffix) <= Len(s)
    /\ SubSeq(s, Len(s) - Len(suffix) + 1, Len(s)) = suffix

HasDot(name) == \E i \in 1..Len(name) : name[i] = "."

\* offset of the last dot of a name that has one
LastDot(name) ==
    CHOOSE i \in 1..Len(name) :
        name[i] = "." /\ \A j \in (i + 1)..Len(name) : name[j] # "."

\* the last dot and every character after it
LastDotSuffix(name) == SubSeq(name, LastDot(name), Len(name))

\* Path recognises both a stem and an extension in the name
Separable(name) == file_stem(name).is_some /\ extension(name).is_some

Stem(name, rule) == split_name(name, rule.ignore_extension)[1]
Suffix(name, rule) == split_name(name, rule.ignore_extension)[2]

\* start offsets of all occurrences, overlapping ones included
Occurrences(s, pat, ignore_case) ==
    {i \in 1..Len(s) : is_match_at(s, i, pat, ignore_case)}

Overlapping(s, pat) ==
    \E i, j \in Occurrences(s, pat, FALSE) : i < j /\ j - i < Len(pat)

\* s without the n characters that start at offset i
DeleteAt(s, i, n) ==
    [j \in 1..(Len(s) - n) |-> IF j < i THEN s[j] ELSE s[j + n]]

Max(S) == CHOOSE m \in S : \A x \in S : x <= m

Prefix(q, k) == SubSeq(q, 1, k)

IsUpper(c) == c \in DOMAIN LowerOf
IsLower(c) == \E u \in DOMAIN LowerOf : LowerOf[u] = c

\* no letter of s has the other case
OneCase(s) ==
    \/ \A i \in 1..Len(s) : ~IsUpper(s[i])
    \/ \A i \in 1..Len(s) : ~IsLower(s[i])

\* every character of the text is the same one
Uniform(text) == \A i \in 1..Len(text) : text[i] = text[1]

BashRc == <<".", "b", "a", "s", "h", "r", "c">>
ArchiveTarGz ==
    <<"a", "r", "c", "h", "i", "v", "e", ".", "t", "a", "r", ".", "g", "z">>
BashRule ==
    [text |-> <<"b", "a", "s", "h">>, remove_position |-> "All",
     case_sensitive |-> TRUE, ignore_extension |-> TRUE]

----------------------------------------------------------------------------
(* Properties of remove (specification Spec)                               *)

\* C1: with ignore_extension and a non-empty text, the output of remove on a
\* name with a separable extension ends with the input's last dot and the
\* characters after it.
C1_ExtensionProtected ==
    (Done /\ TheRule.ignore_extension /\ TheRule.text # <<>>
          /\ Separable(old_text))
    => EndsWith(current_text, LastDotSuffix(old_text))

\* the text is the extension itself, occurs in the stem too, and only the
\* stem's occurrence went
C1_Witness ==
    /\ Done /\ TheRule.ignore_extension /\ Separable(old_text)
    /\ TheRule.text = LastDotSuffix(old_text)
    /\ current_text # old_text
    /\ EndsWith(current_text, TheRule.text)

\* C3 as stated: with position All and case-sensitive matching, applying the
\* rule to its own output changes nothing.
C3_Idempotent ==
    (Done /\ TheRule.remove_position = "All" /\ TheRule.case_sensitive)
    => remove(current_text, TheRule, TheBuilt) = current_text

\* C3 amended: with position All, case-sensitive matching, ignore_extension
\* off and a text made of one repeated character, applying the rule to its
\* own output changes nothing.
C3_IdempotentUniform ==
    (Done /\ TheRule.remove_position = "All" /\ TheRule.case_sensitive
          /\ ~TheRule.ignore_extension /\ Uniform(TheRule.text))
    => remove(current_text, TheRule, TheBuilt) = current_text

C3_Witness ==
    /\ Done /\ TheRule.remove_position = "All" /\ TheRule.case_sensitive
    /\ ~TheRule.ignore_extension /\ Uniform(TheRule.text)
    /\ Len(TheRule.text) = 2
    /\ current_text # old_text /\ current_text # <<>>
    /\ remove(current_text, TheRule, TheBuilt) = current_text

\* C4: the output of remove is never longer than the input, and it is the
\* input when the text is empty or has no occurrence (under the rule's case
\* sensitivity) in the processable stem.
C4_NeverGrows ==
    Done =>
      /\ Len(current_text) <= Len(old_text)
      /\ (\/ TheRule.text = <<>>
          \/ Occurrences(Stem(old_text, TheRule), TheRule.text,
                         ~TheRule.case_sensitive) = {})
         => current_text = old_text

\* the text occurs in the name, but only in the protected extension
C4_Witness ==
    /\ Done /\ TheRule.text # <<>> /\ TheRule.ignore_extension
    /\ Occurrences(Stem(old_text, TheRule), TheRule.text,
                   ~TheRule.case_sensitive) = {}
    /\ Occurrences(old_text, TheRule.text, ~TheRule.case_sensitive) # {}
    /\ current_text = old_text

\* C5: with ignore_extension, a name without a dot or whose only dot leads
\* is not split; a name whose last dot is internal and followed by a
\* non-empty segment is split at that dot; the empty name gives two empty
\* parts; remove(".bashrc", bash/All/case-sensitive/ignore_extension) is
\* ".rc" and "archive.tar.gz" splits into "archive.tar" and ".gz".
C5_Splitting ==
    LET parts == split_name(old_text, TRUE)
        n == Len(old_text)
    IN /\ ~HasDot(old_text) => parts = <<old_text, <<>>>>
       /\ (HasDot(old_text) /\ LastDot(old_text) = 1) => parts = <<old_text, <<>>>>
       /\ (HasDot(old_text) /\ LastDot(old_text) > 1 /\ LastDot(old_text) < n)
          => parts = <<SubSeq(old_text, 1, LastDot(old_text) - 1),
                       SubSeq(old_text, LastDot(old_text), n)>>
       /\ old_text = <<>> => parts = << <<>>, <<>> >>
       /\ old_text = ArchiveTarGz
          => parts = <<SubSeq(ArchiveTarGz, 1, 11), <<".", "g", "z">>>>
       /\ (Done /\ old_text = BashRc /\ TheRule = BashRule)
          => current_text = <<".", "r", "c">>

C5_Witness ==
    /\ Done /\ old_text = BashRc /\ TheRule = BashRule
    /\ current_text = <<".", "r", "c">>

\* C6: when the case-insensitive matcher cannot be built, remove returns the
\* input unchanged, whatever the position.
C6_BuildFailureNoOp ==
    (Done /\ ~TheRule.case_sensitive /\ ~TheBuilt)
    => current_text = old_text

\* the build failed for a text that does occur in the stem
C6_Witness ==
    /\ Done /\ ~TheRule.case_sensitive /\ ~TheBuilt
    /\ TheRule.remove_position = "Last"
    /\ Occurrences(Stem(old_text, TheRule), TheRule.text, FALSE) # {}
    /\ current_text = old_text

\* C8 as stated: with ignore_extension, a name whose last dot is its final
\* character is not split: the stem is the whole name and the suffix empty.
C8_TrailingDotNotSplit ==
    (old_text # <<>> /\ old_text[Len(old_text)] = ".")
    => split_name(old_text, TRUE) = <<old_text, <<>>>>

\* C8 amended: with ignore_extension, a name of two or more characters that
\* ends in a dot (".." excepted) is split before that dot: the stem is the
\* name without it and the suffix is ".", which remove keeps; "." and ".."
\* are not split.
C8_TrailingDotSplit ==
    LET n == Len(old_text)
    IN /\ (n >= 2 /\ old_text[n] = "." /\ old_text # <<".", ".">>)
          => /\ split_name(old_text, TRUE) = <<SubSeq(old_text, 1, n - 1), <<".">>>>
             /\ (Done /\ TheRule.ignore_extension /\ TheRule.text # <<>>)
                => EndsWith(current_text, <<".">>)
       /\ old_text \in {<<".">>, <<".", ".">>}
          => split_name(old_text, TRUE) = <<old_text, <<>>>>

\* "abc." with the text ".": the trailing dot stays
C8_Witness ==
    /\ Done /\ old_text = <<"a", "b", "c", ".">>
    /\ TheRule.text = <<".">> /\ TheRule.ignore_extension
    /\ TheRule.case_sensitive /\ TheRule.remove_position = "All"
    /\ current_text = old_text

\* C9: with position Last and case-sensitive matching, the stem loses exactly
\* the occurrence with the greatest start offset among all occurrences, and
\* is unchanged when there is none.
C9_LastRightMost ==
    (Done /\ TheRule.remove_position = "Last" /\ TheRule.case_sensitive
          /\ TheRule.text # <<>>)
    => LET stem == Stem(old_text, TheRule)
           occ == Occurrences(stem, TheRule.text, FALSE)
       IN current_text =
            (IF occ = {} THEN stem
             ELSE DeleteAt(stem, Max(occ), Len(TheRule.text)))
            \o Suffix(old_text, TheRule)

\* several occurrences, overlapping, and not removing the first one shows
C9_Witness ==
    /\ Done /\ TheRule.remove_position = "Last" /\ TheRule.case_sensitive
    /\ TheRule.text # <<>>
    /\ Overlapping(Stem(old_text, TheRule), TheRule.text)
    /\ LET stem == Stem(old_text, TheRule)
           occ == Occurrences(stem, TheRule.text, FALSE)
       IN /\ Cardinality(occ) >= 2
          /\ current_text # str_replacen(stem, TheRule.text, 1)
                             \o Suffix(old_text, TheRule)

\* the same rule with the other case sensitivity
FlippedRule == [TheRule EXCEPT !.case_sensitive = ~TheRule.case_sensitive]

\* C10 as stated: when name and text are of one case, remove gives the same
\* string with case_sensitive false as with true, for First, Last and All,
\* overlapping occurrences included (the matcher being built).
C10_CaseAgreement ==
    (Done /\ TheBuilt /\ OneCase(old_text \o TheRule.text))
    => current_text = remove(old_text, FlippedRule, TRUE)

\* C10 amended: when name and text are of one case and the matcher is
\* built, remove gives the same string with case_sensitive false as with
\* true for First and All, and for Last provided no two occurrences of the
\* text in the stem overlap.
C10_CaseAgreementNoOverlap ==
    (Done /\ TheBuilt /\ OneCase(old_text \o TheRule.text)
          /\ (TheRule.remove_position = "Last"
                => ~Overlapping(Stem(old_text, TheRule), TheRule.text)))
    => current_text = remove(old_text, FlippedRule, TRUE)

\* a case-insensitive All over overlapping occurrences
C10_Witness ==
    /\ Done /\ OneCase(old_text \o TheRule.text)
    /\ ~TheRule.case_sensitive /\ TheBuilt
    /\ TheRule.remove_position = "All"
    /\ Overlapping(Stem(old_text, TheRule), TheRule.text)
    /\ current_text # old_text
    /\ current_text = remove(old_text, FlippedRule, TRUE)

----------------------------------------------------------------------------
(* Properties of removes (specification SpecRemoves)                       *)

\* C2: removes is a left fold of remove: no rules give the input, and the
\* result for a list extended by a rule is remove applied with that rule to
\* the result for the list.
C2_LeftFold ==
    /\ removes(old_text, <<>>, <<>>) = old_text
    /\ \A k \in 1..Len(rules) :
          removes(old_text, Prefix(rules, k), Prefix(regex_built, k))
            = remove(removes(old_text, Prefix(rules, k - 1),
                             Prefix(regex_built, k - 1)),
                     rules[k], regex_built[k])
    /\ Done => current_text = removes(old_text, rules, regex_built)

\* two rules whose order matters
C2_Witness ==
    /\ Done /\ Len(rules) = 2
    /\ current_text = remove(remove(old_text, rules[1], TRUE), rules[2], TRUE)
    /\ current_text # remove(remove(old_text, rules[2], TRUE), rules[1], TRUE)

====
